---- MODULE Spec2Model ----
(***************************************************************************)
(* Stepper-motor driver of pour-bot (src/main/stepper.cpp) and the way the *)
(* bootstrap (src/main/pour_bot_main.cpp) drives it: one Stepper object,   *)
(* constructed once, then setSpeed and step called from a single task.     *)
(*                                                                         *)
(* Spec          the driver with small motors and short step() calls       *)
(* FairSpec      the same where the task and the clock keep running        *)
(* ScenarioSpec  the bootstrap's motor of 200 steps, whole revolutions     *)
(* SpeedSpec     setSpeed over a range of number_of_steps and whatSpeed    *)
(* TwoSpec       two Stepper objects on disjoint pins, two tasks           *)
(* RolloverSpec  the driver where the unsigned time readings wrap          *)
(*                                                                         *)
(* Times are microseconds as the driver sees them.  The driver's time      *)
(* arithmetic is done on 32-bit (unsigned) long values; outside            *)
(* RolloverSpec every reading the model reaches stays far below 2^31 and   *)
(* the clock is monotone, so the unsigned difference now - last_step_time  *)
(* is the mathematical one.  RolloverSpec takes the readings modulo        *)
(* 2^WordBits, with fewer bits than 32, to reach the wrap.                 *)
(***************************************************************************)
EXTENDS Integers, Sequences, FiniteSets

\* ------------------------------------------------------------------ bounds
\* at most this many step() calls are explored
MaxCalls == 3
\* |steps_to_move| of a call is at most this
MaxSteps == 2
\* at most this many step() calls are explored where termination is checked
LiveMaxCalls == 1
\* the clock is explored freely for this many seconds, and after that only as
\* far as a step() that waits for its delay needs
MaxClockSeconds == 2

\* at most this many step() calls of the bootstrap's motor are explored
ScenarioMaxCalls == 2
\* at most this many step() calls of each of two Stepper objects are explored
TwoMaxCalls == 1
\* where the wrap of the time readings is checked, unsigned long has this many bits
WordBits == 23
\* where setSpeed's arithmetic is checked: number_of_steps and whatSpeed up to these
SpeedMaxSteps == 200
SpeedMaxRpm == 60

\* --------------------------------------------------------------- constants
CLOCKS_PER_SEC == 1000
\* number_of_steps of the bootstrap's motor
ScenarioSteps == 200
\* whatSpeed the bootstrap gives to setSpeed
ScenarioSpeed == 60
GPIO_NUM_MAX == 40
HIGH == 1
LOW == 0

\* ------------------------------------------------------------------ inputs
\* number_of_steps given to the constructors (all positive)
NumberOfStepsChoices == {1, 2, 20}
\* pin arguments of the three constructors; 20 is a pin mapFromInt cannot map
TwoPinArgs == {<<16, 17>>}
FourPinArgs == {<<16, 17, 18, 19>>}
FivePinArgs == {<<16, 17, 18, 19, 21>>, <<16, 17, 18, 19, 20>>}
\* whatSpeed given to setSpeed (all positive)
SpeedChoices == {60, 60000000}
\* steps_to_move given to step
StepChoices == (0 - MaxSteps)..MaxSteps
\* values the never-assigned step_delay field may hold after construction
IndeterminateDelays == {0, 1500000}
\* clock() ticks that pass in one Tick
ClockJump == CLOCKS_PER_SEC \div 2

Abs(n) == IF n < 0 THEN 0 - n ELSE n

\* ------------------------------------------------------------------- state
VARIABLES
    pc,              \* "new", "idle", "loop", "stepMotor", "delay"
    number_of_steps, pin_count, motor_pin,
    step_number, direction, last_step_time, step_delay,
    speedSet,        \* setSpeed has assigned step_delay
    speedArg,       \* the argument of the latest setSpeed, 0 before any
    clock,           \* what clock() returns
    steps_left, thisStep,           \* local of step, argument of stepMotor
    pinArgs,         \* the pin arguments the constructor was called with
    pin_bit_mask, configCalls,      \* gpio_config: mask passed, times invoked
    level,           \* output level of each GPIO
    written,         \* levels passed to gpio_set_level by the last stepMotor
    cur, prev, calls,               \* the current/last and the previous step() call
    transitions, writes, yields,    \* counted since the entry of the current call
    writeFailed,     \* a gpio_set_level of the current call returned an error
    transitionAt,    \* the clock reading at the latest phase transition, 0 before any
    everStepped,     \* some stepMotor call has written its pattern
    applied,         \* the patterns stepMotor has written since the entry of the call
    other            \* a second Stepper object: its fields, and the like of the above

vars == <<pc, number_of_steps, pin_count, motor_pin, step_number, direction,
          last_step_time, step_delay, speedSet, clock, steps_left, thisStep,
          pin_bit_mask, configCalls, level, written, cur, prev, calls,
          transitions, writes, yields, writeFailed, pinArgs, transitionAt,
          everStepped, speedArg, applied, other>>

driverVars == <<number_of_steps, pin_count, motor_pin, step_number, direction,
                last_step_time, step_delay, speedSet, speedArg>>
gpioVars == <<pinArgs, pin_bit_mask, configCalls, level, written, everStepped>>
callVars == <<cur, prev, calls, transitions, writes, yields, writeFailed, transitionAt,
              applied>>
localVars == <<steps_left, thisStep>>

Gpios == 0..(GPIO_NUM_MAX - 1)
NoCall == [n |-> 0, phase0 |-> 0]
\* the second object before its constructor has run
NotConstructed ==
    [pc |-> "new", number_of_steps |-> 0, pin_count |-> 0, motor_pin |-> <<>>,
     step_number |-> 0, direction |-> 0, last_step_time |-> 0, step_delay |-> 0,
     steps_left |-> 0, thisStep |-> 0, written |-> <<>>, everStepped |-> FALSE,
     cur |-> NoCall, calls |-> 0, transitions |-> 0, applied |-> <<>>]

\* ----------------------------------------------------------- pure functions
\* mapFromInt: the switch has no case for 20, 24, 28..31, or anything outside 0..39
Unmapped == {20, 24, 28, 29, 30, 31}
mapFromInt(integerPin) ==
    IF integerPin \in Gpios /\ integerPin \notin Unmapped
    THEN integerPin ELSE GPIO_NUM_MAX

\* micros(): whole seconds of clock(), times 1000000
micros(c) == (c \div CLOCKS_PER_SEC) * 1000000

\* (variant: the seconds are divided before they are scaled to microseconds)
StepDelayFor_DividedFirst(steps, whatSpeed) ==
    ((60 \div steps) * 1000 * 1000) \div whatSpeed

\* setSpeed: 60L * 1000L * 1000L / number_of_steps / whatSpeed
StepDelayFor(steps, whatSpeed) == ((60 * 1000 * 1000) \div steps) \div whatSpeed

\* (variant: the sign is kept)
StepsLeftInit_Signed(steps_to_move) == steps_to_move

\* step(): int steps_left = abs(steps_to_move)
StepsLeftInit(steps_to_move) == Abs(steps_to_move)

\* (variant: whatever is not positive is reverse)
NewDirection_ZeroIsReverse(steps_to_move, dir) ==
    IF steps_to_move > 0 THEN 1 ELSE 0

\* step(): direction is assigned only for a non-zero steps_to_move
NewDirection(steps_to_move, dir) ==
    IF steps_to_move > 0 THEN 1
    ELSE IF steps_to_move < 0 THEN 0
    ELSE dir

\* (variant: the time of the last step is not subtracted)
Eligible_SinceBoot(t, last, delay) == t >= delay

\* step(): if (now - this->last_step_time >= this->step_delay)
Eligible(t, last, delay) == t - last >= delay

\* unsigned long values are taken modulo 2^WordBits
WordModulus == 2 ^ WordBits

\* step(): unsigned long now = micros()
UnsignedMicros(c) == micros(c) % WordModulus

\* (variant: the reading is compared with the time at which the next step is due)
EligibleUnsigned_DueTime(t, last, delay) == t >= (last + delay) % WordModulus

\* step(): if (now - this->last_step_time >= this->step_delay), the difference
\* taken in unsigned long arithmetic
EligibleUnsigned(t, last, delay) == ((t - last) % WordModulus) >= delay

\* (variant: the forward branch does not wrap)
NextStepNumber_NoForwardWrap(dir, sn, steps) ==
    IF dir = 1
    THEN sn + 1
    ELSE (IF sn = 0 THEN steps ELSE sn) - 1

\* (variant: the test of the direction is inverted)
NextStepNumber_DirectionInverted(dir, sn, steps) ==
    IF dir = 0
    THEN (IF sn + 1 = steps THEN 0 ELSE sn + 1)
    ELSE (IF sn = 0 THEN steps ELSE sn) - 1

\* (variant: the reverse branch wraps to number_of_steps - 1 before decrementing)
NextStepNumber_ReverseWrapLow(dir, sn, steps) ==
    IF dir = 1
    THEN (IF sn + 1 = steps THEN 0 ELSE sn + 1)
    ELSE (IF sn = 0 THEN steps - 1 ELSE sn) - 1

\* step(): increment or decrement the step number, depending on direction
NextStepNumber(dir, sn, steps) ==
    IF dir = 1
    THEN (IF sn + 1 = steps THEN 0 ELSE sn + 1)
    ELSE (IF sn = 0 THEN steps ELSE sn) - 1

\* (variant: the five-pin case is missing)
PhaseArg_AlwaysFour(pins, sn) == sn % 4

\* step(): stepMotor(step_number % 10) for five pins, stepMotor(step_number % 4) otherwise
PhaseArg(pins, sn) == IF pins = 5 THEN sn % 10 ELSE sn % 4

\* (variant: the two-wire cases 0 and 2 have their levels exchanged)
StepMotorLevels_TwoWireSwapped(pins, step) ==
    IF pins = 2 THEN
        CASE step = 0 -> <<HIGH, LOW>>
          [] step = 1 -> <<HIGH, HIGH>>
          [] step = 2 -> <<LOW, HIGH>>
          [] step = 3 -> <<LOW, LOW>>
          [] OTHER -> <<>>
    ELSE IF pins = 4 THEN
        CASE step = 0 -> <<HIGH, LOW, HIGH, LOW>>
          [] step = 1 -> <<LOW, HIGH, HIGH, LOW>>
          [] step = 2 -> <<LOW, HIGH, LOW, HIGH>>
          [] step = 3 -> <<HIGH, LOW, LOW, HIGH>>
          [] OTHER -> <<>>
    ELSE IF pins = 5 THEN
        CASE step = 0 -> <<LOW, HIGH, HIGH, LOW, HIGH>>
          [] step = 1 -> <<LOW, HIGH, LOW, LOW, HIGH>>
          [] step = 2 -> <<LOW, HIGH, LOW, HIGH, HIGH>>
          [] step = 3 -> <<LOW, HIGH, LOW, HIGH, LOW>>
          [] step = 4 -> <<HIGH, HIGH, LOW, HIGH, LOW>>
          [] step = 5 -> <<HIGH, LOW, LOW, HIGH, LOW>>
          [] step = 6 -> <<HIGH, LOW, HIGH, HIGH, LOW>>
          [] step = 7 -> <<HIGH, LOW, HIGH, LOW, LOW>>
          [] step = 8 -> <<HIGH, LOW, HIGH, LOW, HIGH>>
          [] step = 9 -> <<LOW, LOW, HIGH, LOW, HIGH>>
          [] OTHER -> <<>>
    ELSE <<>>

\* stepMotor(): the levels passed to gpio_set_level for motor_pin_1, motor_pin_2, ...
\* in the order of the calls; no case of the switch matches: nothing is written
StepMotorLevels(pins, step) ==
    IF pins = 2 THEN
        CASE step = 0 -> <<LOW, HIGH>>
          [] step = 1 -> <<HIGH, HIGH>>
          [] step = 2 -> <<HIGH, LOW>>
          [] step = 3 -> <<LOW, LOW>>
          [] OTHER -> <<>>
    ELSE IF pins = 4 THEN
        CASE step = 0 -> <<HIGH, LOW, HIGH, LOW>>
          [] step = 1 -> <<LOW, HIGH, HIGH, LOW>>
          [] step = 2 -> <<LOW, HIGH, LOW, HIGH>>
          [] step = 3 -> <<HIGH, LOW, LOW, HIGH>>
          [] OTHER -> <<>>
    ELSE IF pins = 5 THEN
        CASE step = 0 -> <<LOW, HIGH, HIGH, LOW, HIGH>>
          [] step = 1 -> <<LOW, HIGH, LOW, LOW, HIGH>>
          [] step = 2 -> <<LOW, HIGH, LOW, HIGH, HIGH>>
          [] step = 3 -> <<LOW, HIGH, LOW, HIGH, LOW>>
          [] step = 4 -> <<HIGH, HIGH, LOW, HIGH, LOW>>
          [] step = 5 -> <<HIGH, LOW, LOW, HIGH, LOW>>
          [] step = 6 -> <<HIGH, LOW, HIGH, HIGH, LOW>>
          [] step = 7 -> <<HIGH, LOW, HIGH, LOW, LOW>>
          [] step = 8 -> <<HIGH, LOW, HIGH, LOW, HIGH>>
          [] step = 9 -> <<LOW, LOW, HIGH, LOW, HIGH>>
          [] OTHER -> <<>>
    ELSE <<>>

\* gpio_set_level(gpio_num, level) sets the level of a GPIO and reports an error,
\* changing nothing, for a gpio_num that is no GPIO (GPIO_NUM_MAX)
GpioWriteOk(gpio_num) == gpio_num \in Gpios

\* the output levels after gpio_set_level(handles[i], vals[i]) for i = from..Len(vals)
RECURSIVE ApplyWrites(_, _, _, _)
ApplyWrites(lv, handles, vals, from) ==
    IF from > Len(vals) THEN lv
    ELSE ApplyWrites(IF GpioWriteOk(handles[from])
                     THEN [lv EXCEPT ![handles[from]] = vals[from]]
                     ELSE lv,
                     handles, vals, from + 1)

\* some gpio_set_level of these calls reported an error
AnyWriteFails(handles, vals) ==
    \E i \in 1..Len(vals) : ~GpioWriteOk(handles[i])

\* ---------------------------------------------------------------- initially
InitAt(c) ==
    /\ pc = "new"
    /\ number_of_steps = 0 /\ pin_count = 0
    /\ motor_pin = <<GPIO_NUM_MAX, GPIO_NUM_MAX, GPIO_NUM_MAX, GPIO_NUM_MAX, GPIO_NUM_MAX>>
    /\ step_number = 0 /\ direction = 0 /\ last_step_time = 0 /\ step_delay = 0
    /\ speedSet = FALSE /\ speedArg = 0
    /\ clock = c
    /\ steps_left = 0 /\ thisStep = 0
    /\ pin_bit_mask = {} /\ configCalls = 0
    /\ level = [g \in Gpios |-> LOW]
    /\ written = <<>>
    /\ cur = NoCall /\ prev = NoCall /\ calls = 0
    /\ transitions = 0 /\ writes = 0 /\ yields = 0
    /\ writeFailed = FALSE
    /\ pinArgs = <<>>
    /\ transitionAt = 0
    /\ everStepped = FALSE
    /\ applied = <<>>
    /\ other = NotConstructed

\* the program starts
Init == InitAt(0)

\* ------------------------------------------------------------- constructors
\* (variant: the direction starts as the one of a forward step)
Construct_DirectionForward(steps, args, handles) ==
    /\ pc' = "idle"
    /\ step_number' = 0
    /\ direction' = 1
    /\ last_step_time' = 0
    /\ number_of_steps' = steps
    /\ motor_pin' = handles
    /\ pinArgs' = args
    /\ pin_bit_mask' = {args[i] : i \in 1..Len(args)}
    /\ configCalls' = configCalls + 1
    /\ pin_count' = Len(args)
    /\ step_delay' \in IndeterminateDelays
    /\ UNCHANGED <<speedSet, speedArg, clock, localVars, level, written, everStepped,
                   callVars, other>>

\* what the three constructors share: the fields are assigned, gpio_config is
\* called with the bits of the pin arguments, step_delay is left unassigned
Construct(steps, args, handles) ==
    /\ pc' = "idle"
    /\ step_number' = 0
    /\ direction' = 0
    /\ last_step_time' = 0
    /\ number_of_steps' = steps
    /\ motor_pin' = handles
    /\ pinArgs' = args
    /\ pin_bit_mask' = {args[i] : i \in 1..Len(args)}
    /\ configCalls' = configCalls + 1
    /\ pin_count' = Len(args)
    /\ step_delay' \in IndeterminateDelays
    /\ UNCHANGED <<speedSet, speedArg, clock, localVars, level, written, everStepped,
                   callVars, other>>

\* Stepper(number_of_steps, motor_pin_1, motor_pin_2)
StepperTwoWire ==
    /\ pc = "new"
    /\ \E steps \in NumberOfStepsChoices, a \in TwoPinArgs :
          Construct(steps, a, <<mapFromInt(a[1]), mapFromInt(a[2]),
                                GPIO_NUM_MAX, GPIO_NUM_MAX, GPIO_NUM_MAX>>)

\* Stepper(number_of_steps, motor_pin_1, ..., motor_pin_4)
StepperFourWire ==
    /\ pc = "new"
    /\ \E steps \in NumberOfStepsChoices, a \in FourPinArgs :
          Construct(steps, a, <<mapFromInt(a[1]), mapFromInt(a[2]),
                                mapFromInt(a[3]), mapFromInt(a[4]), GPIO_NUM_MAX>>)

\* Stepper(number_of_steps, motor_pin_1, ..., motor_pin_5)
StepperFiveWire ==
    /\ pc = "new"
    /\ \E steps \in NumberOfStepsChoices, a \in FivePinArgs :
          Construct(steps, a, <<mapFromInt(a[1]), mapFromInt(a[2]), mapFromInt(a[3]),
                                mapFromInt(a[4]), mapFromInt(a[5])>>)

\* ----------------------------------------------------------------- setSpeed
\* (variant: the new speed also restarts the pacing)
SetSpeedOf_RestartsPacing(choices) ==
    /\ pc = "idle"
    /\ \E whatSpeed \in choices :
          /\ step_delay' = StepDelayFor(number_of_steps, whatSpeed)
          /\ speedArg' = whatSpeed
    /\ speedSet' = TRUE
    /\ last_step_time' = 0
    /\ UNCHANGED <<pc, number_of_steps, pin_count, motor_pin, step_number, direction,
                   clock, localVars, gpioVars, callVars, other>>

\* setSpeed(whatSpeed)
SetSpeedOf(choices) ==
    /\ pc = "idle"
    /\ \E whatSpeed \in choices :
          /\ step_delay' = StepDelayFor(number_of_steps, whatSpeed)
          /\ speedArg' = whatSpeed
    /\ speedSet' = TRUE
    /\ UNCHANGED <<pc, number_of_steps, pin_count, motor_pin, step_number, direction,
                   last_step_time, clock, localVars, gpioVars, callVars, other>>

SetSpeed ==
    /\ pc = "idle"
    /\ SetSpeedOf(SpeedChoices)

\* --------------------------------------------------------------------- step
\* entry of step(steps_to_move), up to the first test of the while loop
StepEntryOf(choices) ==
    /\ pc = "idle"
    /\ \E steps_to_move \in choices :
          /\ steps_left' = StepsLeftInit(steps_to_move)
          /\ direction' = NewDirection(steps_to_move, direction)
          /\ cur' = [n |-> steps_to_move, phase0 |-> step_number]
    /\ prev' = cur
    /\ calls' = calls + 1
    /\ transitions' = 0 /\ writes' = 0 /\ yields' = 0 /\ writeFailed' = FALSE
    /\ applied' = <<>>
    /\ pc' = "loop"
    /\ UNCHANGED <<number_of_steps, pin_count, motor_pin, step_number, last_step_time,
                   step_delay, speedSet, speedArg, clock, thisStep, gpioVars,
                   transitionAt, other>>

StepEntry ==
    /\ pc = "idle"
    /\ StepEntryOf(StepChoices)

StepCall ==
    /\ calls < MaxCalls
    /\ StepEntry

\* (variant: the task yields in every pass of the loop)
LoopWait_Yielding ==
    /\ pc = "loop"
    /\ steps_left > 0
    /\ ~Eligible(micros(clock), last_step_time, step_delay)
    /\ yields' = yields + 1
    /\ UNCHANGED <<pc, driverVars, clock, localVars, gpioVars, cur, prev, calls,
                   transitions, writes, writeFailed, transitionAt, applied, other>>

\* one pass of the while loop in which the delay has not passed
LoopWait ==
    /\ pc = "loop"
    /\ steps_left > 0
    /\ ~Eligible(micros(clock), last_step_time, step_delay)
    /\ UNCHANGED vars

\* one pass of the while loop in which the delay has passed, up to the call of stepMotor
LoopStep ==
    /\ pc = "loop"
    /\ steps_left > 0
    /\ Eligible(micros(clock), last_step_time, step_delay)
    /\ last_step_time' = micros(clock)
    /\ step_number' = NextStepNumber(direction, step_number, number_of_steps)
    /\ steps_left' = steps_left - 1
    /\ thisStep' = PhaseArg(pin_count, step_number')
    /\ transitions' = transitions + 1
    /\ transitionAt' = micros(clock)
    /\ pc' = "stepMotor"
    /\ UNCHANGED <<number_of_steps, pin_count, motor_pin, direction, step_delay,
                   speedSet, speedArg, clock, gpioVars, cur, prev, calls, writes,
                   yields, writeFailed, applied, other>>

\* stepMotor(thisStep), its gpio_set_level calls
StepMotor ==
    /\ pc = "stepMotor"
    /\ written' = StepMotorLevels(pin_count, thisStep)
    /\ level' = ApplyWrites(level, motor_pin, written', 1)
    /\ writes' = writes + Len(written')
    /\ writeFailed' = (writeFailed \/ AnyWriteFails(motor_pin, written'))
    /\ everStepped' = TRUE
    /\ applied' = Append(applied, written')
    /\ pc' = "delay"
    /\ UNCHANGED <<driverVars, clock, localVars, pinArgs, pin_bit_mask, configCalls,
                   cur, prev, calls, transitions, yields, transitionAt, other>>

\* stepMotor(thisStep), its vTaskDelay(2), and the return to the loop
VTaskDelay ==
    /\ pc = "delay"
    /\ yields' = yields + 1
    /\ thisStep' = 0
    /\ pc' = "loop"
    /\ UNCHANGED <<driverVars, clock, steps_left, gpioVars,
                   cur, prev, calls, transitions, writes, writeFailed, transitionAt,
                   applied, other>>

\* the while loop ends and step returns
StepReturn ==
    /\ pc = "loop"
    /\ ~(steps_left > 0)
    /\ pc' = "idle"
    /\ UNCHANGED <<driverVars, clock, localVars, gpioVars, callVars, other>>

\* -------------------------------------------------------------------- clock
\* time passes: clock() grows
Tick ==
    /\ \/ clock < MaxClockSeconds * CLOCKS_PER_SEC
       \/ /\ pc = "loop"
          /\ steps_left > 0
          /\ ~Eligible(micros(clock), last_step_time, step_delay)
    /\ clock' = clock + ClockJump
    /\ UNCHANGED <<pc, driverVars, localVars, gpioVars, callVars, other>>

Next ==
    \/ StepperTwoWire
    \/ StepperFourWire
    \/ StepperFiveWire
    \/ SetSpeed
    \/ StepCall
    \/ LoopWait
    \/ LoopStep
    \/ StepMotor
    \/ VTaskDelay
    \/ StepReturn
    \/ Tick

Spec == Init /\ [][Next]_vars

\* the single task runs on, stepMotor and vTaskDelay return, and the clock advances
LiveStepCall ==
    /\ calls < LiveMaxCalls
    /\ StepEntry

LiveNext ==
    \/ StepperTwoWire
    \/ StepperFourWire
    \/ StepperFiveWire
    \/ SetSpeed
    \/ LiveStepCall
    \/ LoopWait
    \/ LoopStep
    \/ StepMotor
    \/ VTaskDelay
    \/ StepReturn
    \/ Tick

FairSpec ==
    /\ Init /\ [][LiveNext]_vars
    /\ WF_vars(Tick)
    /\ WF_vars(LoopStep)
    /\ WF_vars(StepMotor)
    /\ WF_vars(VTaskDelay)
    /\ WF_vars(StepReturn)

\* ------------------------------------------------- the bootstrap's motor
\* app_main: Stepper stepper(200, 16, 17, 18, 19), steps of a whole revolution
\* forward, then backward; and the five-wire motor with as many steps, moved by ten
ScenarioStepChoices == {10, ScenarioSteps, 0 - ScenarioSteps}

ScenarioFourWire ==
    /\ pc = "new"
    /\ \E a \in FourPinArgs :
          Construct(ScenarioSteps, a, <<mapFromInt(a[1]), mapFromInt(a[2]),
                                        mapFromInt(a[3]), mapFromInt(a[4]), GPIO_NUM_MAX>>)

ScenarioFiveWire ==
    /\ pc = "new"
    /\ \E a \in FivePinArgs :
          Construct(ScenarioSteps, a, <<mapFromInt(a[1]), mapFromInt(a[2]),
                                        mapFromInt(a[3]), mapFromInt(a[4]),
                                        mapFromInt(a[5])>>)

ScenarioSetSpeed ==
    /\ pc = "idle"
    /\ SetSpeedOf({ScenarioSpeed})

ScenarioStepCall ==
    /\ calls < ScenarioMaxCalls
    /\ StepEntryOf(ScenarioStepChoices)

ScenarioNext ==
    \/ ScenarioFourWire
    \/ ScenarioFiveWire
    \/ ScenarioSetSpeed
    \/ ScenarioStepCall
    \/ LoopWait
    \/ LoopStep
    \/ StepMotor
    \/ VTaskDelay
    \/ StepReturn
    \/ Tick

ScenarioSpec == Init /\ [][ScenarioNext]_vars

\* --------------------------------------------------- setSpeed's arithmetic
\* a four-wire motor of any number of steps up to SpeedMaxSteps, and setSpeed with
\* any whatSpeed up to SpeedMaxRpm
SpeedFourWire ==
    /\ pc = "new"
    /\ \E steps \in 1..SpeedMaxSteps, a \in FourPinArgs :
          Construct(steps, a, <<mapFromInt(a[1]), mapFromInt(a[2]),
                                mapFromInt(a[3]), mapFromInt(a[4]), GPIO_NUM_MAX>>)

SpeedSetSpeed ==
    /\ pc = "idle"
    /\ SetSpeedOf(1..SpeedMaxRpm)

SpeedNext ==
    \/ SpeedFourWire
    \/ SpeedSetSpeed

SpeedSpec == Init /\ [][SpeedNext]_vars

\* ------------------------------------------------------ two Stepper objects
\* a four-wire object (the variables above) and a two-wire object (other) on other
\* pins, each used by a task of its own; the tasks share clock() and the GPIOs
TwoNumberOfSteps == {2, 20}
OtherPinArgs == <<22, 23>>
TwoStepChoices == {0 - 1, 2}

TwoFourWire ==
    /\ pc = "new"
    /\ \E steps \in TwoNumberOfSteps, a \in FourPinArgs :
          Construct(steps, a, <<mapFromInt(a[1]), mapFromInt(a[2]),
                                mapFromInt(a[3]), mapFromInt(a[4]), GPIO_NUM_MAX>>)

TwoSetSpeed ==
    /\ pc = "idle"
    /\ SetSpeedOf({ScenarioSpeed})

TwoStepCall ==
    /\ calls < TwoMaxCalls
    /\ StepEntryOf(TwoStepChoices)

\* what belongs to the first object, the GPIO levels aside
firstVars == <<pc, driverVars, localVars, pinArgs, pin_bit_mask, configCalls, written,
               everStepped, callVars>>

\* Stepper(number_of_steps, motor_pin_1, motor_pin_2) of the second object
OtherTwoWire ==
    /\ other.pc = "new"
    /\ \E steps \in TwoNumberOfSteps, delay \in IndeterminateDelays :
          other' = [other EXCEPT !.pc = "idle",
                                 !.step_number = 0,
                                 !.direction = 0,
                                 !.last_step_time = 0,
                                 !.number_of_steps = steps,
                                 !.motor_pin = <<mapFromInt(OtherPinArgs[1]),
                                                 mapFromInt(OtherPinArgs[2])>>,
                                 !.pin_count = 2,
                                 !.step_delay = delay]
    /\ UNCHANGED <<firstVars, level, clock>>

\* setSpeed of the second object
OtherSetSpeed ==
    /\ other.pc = "idle"
    /\ other' = [other EXCEPT
                    !.step_delay = StepDelayFor(other.number_of_steps, ScenarioSpeed)]
    /\ UNCHANGED <<firstVars, level, clock>>

\* step of the second object: entry
OtherStepCall ==
    /\ other.pc = "idle"
    /\ other.calls < TwoMaxCalls
    /\ \E steps_to_move \in TwoStepChoices :
          other' = [other EXCEPT
                      !.steps_left = StepsLeftInit(steps_to_move),
                      !.direction = NewDirection(steps_to_move, other.direction),
                      !.cur = [n |-> steps_to_move, phase0 |-> other.step_number],
                      !.calls = other.calls + 1,
                      !.transitions = 0,
                      !.applied = <<>>,
                      !.pc = "loop"]
    /\ UNCHANGED <<firstVars, level, clock>>

\* step of the second object: a pass of the loop in which the delay has not passed
OtherLoopWait ==
    /\ other.pc = "loop"
    /\ other.steps_left > 0
    /\ ~Eligible(micros(clock), other.last_step_time, other.step_delay)
    /\ UNCHANGED vars

\* the second object after a pass of the loop in which the delay has passed
OtherAfterLoopStep ==
    [other EXCEPT
       !.last_step_time = micros(clock),
       !.step_number = NextStepNumber(other.direction, other.step_number,
                                      other.number_of_steps),
       !.steps_left = other.steps_left - 1,
       !.thisStep = PhaseArg(other.pin_count,
                             NextStepNumber(other.direction, other.step_number,
                                            other.number_of_steps)),
       !.transitions = other.transitions + 1,
       !.pc = "stepMotor"]

\* (variant: step_number is one counter that all Stepper objects share)
OtherLoopStep_SharedStepNumber ==
    /\ other.pc = "loop"
    /\ other.steps_left > 0
    /\ Eligible(micros(clock), other.last_step_time, other.step_delay)
    /\ other' = OtherAfterLoopStep
    /\ step_number' = other'.step_number
    /\ UNCHANGED <<pc, number_of_steps, pin_count, motor_pin, direction, last_step_time,
                   step_delay, speedSet, speedArg, localVars, pinArgs, pin_bit_mask,
                   configCalls, written, everStepped, callVars, level, clock>>

\* step of the second object: a pass of the loop in which the delay has passed
OtherLoopStep ==
    /\ other.pc = "loop"
    /\ other.steps_left > 0
    /\ Eligible(micros(clock), other.last_step_time, other.step_delay)
    /\ other' = OtherAfterLoopStep
    /\ UNCHANGED <<firstVars, level, clock>>

\* stepMotor of the second object: its gpio_set_level calls and its vTaskDelay
OtherStepMotor ==
    /\ other.pc = "stepMotor"
    /\ other' = [other EXCEPT
                    !.written = StepMotorLevels(other.pin_count, other.thisStep),
                    !.applied = Append(other.applied,
                                       StepMotorLevels(other.pin_count, other.thisStep)),
                    !.everStepped = TRUE,
                    !.thisStep = 0,
                    !.pc = "loop"]
    /\ level' = ApplyWrites(level, other.motor_pin, other'.written, 1)
    /\ UNCHANGED <<firstVars, clock>>

\* step of the second object: the loop ends
OtherStepReturn ==
    /\ other.pc = "loop"
    /\ ~(other.steps_left > 0)
    /\ other' = [other EXCEPT !.pc = "idle"]
    /\ UNCHANGED <<firstVars, level, clock>>

\* time passes, as far as explored freely or as a waiting step() needs
TwoTick ==
    /\ \/ clock < MaxClockSeconds * CLOCKS_PER_SEC
       \/ /\ pc = "loop"
          /\ steps_left > 0
          /\ ~Eligible(micros(clock), last_step_time, step_delay)
       \/ /\ other.pc = "loop"
          /\ other.steps_left > 0
          /\ ~Eligible(micros(clock), other.last_step_time, other.step_delay)
    /\ clock' = clock + ClockJump
    /\ UNCHANGED <<firstVars, level, other>>

TwoNext ==
    \/ TwoFourWire
    \/ TwoSetSpeed
    \/ TwoStepCall
    \/ LoopWait
    \/ LoopStep
    \/ StepMotor
    \/ VTaskDelay
    \/ StepReturn
    \/ OtherTwoWire
    \/ OtherSetSpeed
    \/ OtherStepCall
    \/ OtherLoopWait
    \/ OtherLoopStep
    \/ OtherStepMotor
    \/ OtherStepReturn
    \/ TwoTick

TwoSpec == Init /\ [][TwoNext]_vars

\* ------------------------------------------------ wrap of the time readings
\* the driver where unsigned long has WordBits bits, constructed one second of
\* clock() before the last reading that is below 2^WordBits
RolloverStartClock == ((WordModulus \div 1000000) - 1) * CLOCKS_PER_SEC

RolloverInit == InitAt(RolloverStartClock)

RolloverFourWire ==
    /\ pc = "new"
    /\ \E steps \in NumberOfStepsChoices, a \in FourPinArgs :
          Construct(steps, a, <<mapFromInt(a[1]), mapFromInt(a[2]),
                                mapFromInt(a[3]), mapFromInt(a[4]), GPIO_NUM_MAX>>)

RolloverSetSpeed ==
    /\ pc = "idle"
    /\ SetSpeedOf({ScenarioSpeed})

RolloverStepCall ==
    /\ calls < LiveMaxCalls
    /\ StepEntryOf(StepChoices)

\* one pass of the while loop in which the delay has not passed
RolloverLoopWait ==
    /\ pc = "loop"
    /\ steps_left > 0
    /\ ~EligibleUnsigned(UnsignedMicros(clock), last_step_time, step_delay)
    /\ UNCHANGED vars

\* one pass of the while loop in which the delay has passed, up to the call of stepMotor
RolloverLoopStep ==
    /\ pc = "loop"
    /\ steps_left > 0
    /\ EligibleUnsigned(UnsignedMicros(clock), last_step_time, step_delay)
    /\ last_step_time' = UnsignedMicros(clock)
    /\ step_number' = NextStepNumber(direction, step_number, number_of_steps)
    /\ steps_left' = steps_left - 1
    /\ thisStep' = PhaseArg(pin_count, step_number')
    /\ transitions' = transitions + 1
    /\ transitionAt' = micros(clock)
    /\ pc' = "stepMotor"
    /\ UNCHANGED <<number_of_steps, pin_count, motor_pin, direction, step_delay,
                   speedSet, speedArg, clock, gpioVars, cur, prev, calls, writes,
                   yields, writeFailed, applied, other>>

\* time passes, as far as explored freely or as a waiting step() needs
RolloverTick ==
    /\ \/ clock < RolloverStartClock + MaxClockSeconds * CLOCKS_PER_SEC
       \/ /\ pc = "loop"
          /\ steps_left > 0
          /\ ~EligibleUnsigned(UnsignedMicros(clock), last_step_time, step_delay)
    /\ clock' = clock + ClockJump
    /\ UNCHANGED <<pc, driverVars, localVars, gpioVars, callVars, other>>

RolloverNext ==
    \/ RolloverFourWire
    \/ RolloverSetSpeed
    \/ RolloverStepCall
    \/ RolloverLoopWait
    \/ RolloverLoopStep
    \/ StepMotor
    \/ VTaskDelay
    \/ StepReturn
    \/ RolloverTick

RolloverSpec == RolloverInit /\ [][RolloverNext]_vars

\* ================================================================ properties
InCall == pc \in {"loop", "stepMotor", "delay"}
Returned == pc = "idle" /\ calls >= 1

\* C1: once the driver is constructed, 0 <= step_number < number_of_steps in every
\* state, also in the middle of a step() call after each single phase transition.
C1_PhaseIndexInRange ==
    pc # "new" => (0 <= step_number /\ step_number < number_of_steps)

\* a reverse step from 0 has wrapped to number_of_steps - 1 in the middle of a call
C1_Witness ==
    /\ pc = "delay" /\ steps_left > 0
    /\ cur.n < 0 /\ cur.phase0 = 0 /\ transitions = 1
    /\ number_of_steps > 1 /\ step_number = number_of_steps - 1

\* C2: a step(+N) entered at step_number 0 returns with step_number = N mod S, and
\* a step(-N) entered at step_number 0 with (S - N mod S) mod S, S = number_of_steps.
C2_StepsFromPhaseZero ==
    (Returned /\ cur.phase0 = 0) =>
        /\ cur.n >= 0 => step_number = cur.n % number_of_steps
        /\ cur.n <= 0 =>
              step_number =
                  (number_of_steps - (Abs(cur.n) % number_of_steps)) % number_of_steps

\* step(-2) entered at 0 has returned on a twenty-step five-wire motor, at 18
C2_Witness ==
    /\ Returned /\ cur.phase0 = 0 /\ cur.n = 0 - 2
    /\ pin_count = 5 /\ number_of_steps = 20 /\ step_number = 18

\* C3: step(+K) followed by step(-K), K >= 0, returns with step_number as it was
\* before the first of the two calls.
C3_RoundTrip ==
    (Returned /\ calls >= 2 /\ prev.n >= 0 /\ cur.n = 0 - prev.n) =>
        step_number = prev.phase0

\* step(+2), step(-2) has returned to 1, wrapping a two-step motor both ways
C3_Witness ==
    /\ Returned /\ calls >= 2 /\ prev.n = 2 /\ cur.n = 0 - 2
    /\ prev.phase0 = 1 /\ number_of_steps = 2 /\ step_number = 1

\* C4: a step(n) entered after setSpeed returns, provided the clock keeps advancing,
\* and it takes exactly |n| phase transitions: never more on the way, |n| at return.
C4_AdvanceReturnsAfterExactSteps ==
    /\ [](InCall => transitions <= Abs(cur.n))
    /\ [](Returned => transitions = Abs(cur.n))
    /\ ((InCall /\ speedSet) ~> (pc = "idle"))

\* a paced step(-2) has returned after two phase transitions
C4_Witness ==
    /\ Returned /\ speedSet /\ step_delay = 1000000
    /\ cur.n = 0 - 2 /\ transitions = 2 /\ last_step_time >= 2000000

\* C5: with step_delay set by setSpeed, a phase transition happens only at a clock
\* reading that is at least step_delay past the reading of the previous transition
\* (0 before the first, whichever call took it), which is what last_step_time holds,
\* and the transition stores its own reading in last_step_time.
C5_Pacing ==
    [][(speedSet /\ transitions' = transitions + 1) =>
          /\ last_step_time = transitionAt
          /\ micros(clock) - transitionAt >= step_delay
          /\ last_step_time' = micros(clock)]_vars

\* the first transition of a later call waited for the delay after the last
\* transition of the call before
C5_Witness ==
    /\ pc = "stepMotor" /\ calls >= 2 /\ transitions = 1 /\ speedSet
    /\ step_delay = 1000000 /\ Abs(prev.n) >= 1 /\ last_step_time >= 2000000

\* the phase tables of the specification, row r at index r + 1
TwoWireTable == <<<<0, 1>>, <<1, 1>>, <<1, 0>>, <<0, 0>>>>
FourWireTable == <<<<1, 0, 1, 0>>, <<0, 1, 1, 0>>, <<0, 1, 0, 1>>, <<1, 0, 0, 1>>>>
FivePhaseFiveWireTable ==
    <<<<0, 1, 1, 0, 1>>, <<0, 1, 0, 0, 1>>, <<0, 1, 0, 1, 1>>, <<0, 1, 0, 1, 0>>,
      <<1, 1, 0, 1, 0>>, <<1, 0, 0, 1, 0>>, <<1, 0, 1, 1, 0>>, <<1, 0, 1, 0, 0>>,
      <<1, 0, 1, 0, 1>>, <<0, 0, 1, 0, 1>>>>
PhaseTable(pins) ==
    IF pins = 2 THEN TwoWireTable
    ELSE IF pins = 4 THEN FourWireTable
    ELSE FivePhaseFiveWireTable
CycleLength(pins) == IF pins = 5 THEN 10 ELSE 4

\* C6: after every completed phase transition the levels written to the pins, in pin
\* order, are the row step_number mod cycleLength of the variant's phase table, and
\* every pin that took its write (and was not written again after) shows that level.
C6_PatternIsTableRow ==
    (everStepped /\ pc # "stepMotor") =>
        /\ written = PhaseTable(pin_count)[(step_number % CycleLength(pin_count)) + 1]
        /\ \A i \in 1..pin_count :
              (/\ GpioWriteOk(motor_pin[i])
               /\ \A j \in (i + 1)..pin_count : motor_pin[j] # motor_pin[i])
                  => level[motor_pin[i]] = written[i]

\* a five-wire motor stepped backwards from 0 shows row 9
C6_Witness ==
    /\ pc = "delay" /\ pin_count = 5 /\ number_of_steps = 20
    /\ step_number = 19 /\ direction = 0 /\ written = <<0, 0, 1, 0, 1>>

\* C7: step(0) changes nothing of the driver and writes no pin, takes no phase
\* transition and does not yield, from its entry to its return.
C7_ZeroStepsNoEffect ==
    [][((pc = "idle" /\ pc' = "loop" /\ cur'.n = 0) \/ (pc = "loop" /\ cur.n = 0)) =>
          /\ UNCHANGED <<step_number, direction, last_step_time, step_delay,
                         number_of_steps, pin_count, motor_pin, level, written>>
          /\ transitions' = 0 /\ writes' = 0 /\ yields' = 0
          /\ pc' \in {"loop", "idle"}]_vars

\* step(0) has returned on a driver that was moved forward before
C7_Witness ==
    /\ Returned /\ calls >= 2 /\ cur.n = 0 /\ prev.n > 0
    /\ direction = 1 /\ step_number > 0 /\ everStepped

\* C8: a constructor given a pin that mapFromInt cannot map constructs no driver and
\* does not call gpio_config.
C8_UnmappedPinFails ==
    (\E i \in 1..Len(pinArgs) : mapFromInt(pinArgs[i]) = GPIO_NUM_MAX) =>
        (pc = "new" /\ configCalls = 0 /\ pin_bit_mask = {})

\* C9: a step(n), n # 0, on a driver whose setSpeed was never called takes no phase
\* transition and writes no pin.
C9_NoStepBeforeSetSpeed ==
    (InCall /\ ~speedSet) => (transitions = 0 /\ writes = 0)

\* C10: once a gpio_set_level of a step() call has failed, that call takes no
\* further phase transition and writes no further pattern.
C10_AbortOnWriteFailure ==
    [][(writeFailed /\ InCall) =>
          (transitions' = transitions /\ writes' = writes)]_vars

\* the i-th pattern of a sequence is row (first + i - 1) mod cycleLength of the table
RowsFrom(seq, pins, first) ==
    \A i \in 1..Len(seq) :
        seq[i] = PhaseTable(pins)[((first + i - 1) % CycleLength(pins)) + 1]

\* the first step(10) of a five-wire motor of 200 steps has returned
FreshFiveWireMovedTen ==
    /\ Returned /\ calls = 1 /\ cur.n = 10
    /\ pin_count = 5 /\ number_of_steps = ScenarioSteps

\* C11 (as stated): the first step(10) of a freshly constructed five-wire motor of
\* 200 steps writes exactly ten patterns, the rows 0, 1, ..., 9 of the table in
\* this order.
C11_RowsZeroToNine ==
    FreshFiveWireMovedTen => (Len(applied) = 10 /\ RowsFrom(applied, 5, 0))

\* C11: the first step(10) of a freshly constructed five-wire motor of 200 steps
\* has written, when it returns, exactly ten patterns, the rows 1, 2, ..., 9, 0 of
\* the table in this order: step_number is incremented before its row is written.
C11_RowsOneToZero ==
    FreshFiveWireMovedTen => (Len(applied) = 10 /\ RowsFrom(applied, 5, 1))

\* such a call has returned: row 1 was written first, row 0 last
C11_Witness ==
    /\ FreshFiveWireMovedTen /\ Len(applied) = 10
    /\ applied[1] = <<0, 1, 0, 0, 1>> /\ applied[10] = <<0, 1, 1, 0, 1>>

\* a step(n) of the bootstrap's four-wire motor, entered at step_number 0 after
\* setSpeed, has returned
FourWireRevolution(n) ==
    /\ Returned /\ speedSet /\ cur.phase0 = 0 /\ cur.n = n
    /\ pin_count = 4 /\ number_of_steps = ScenarioSteps

\* C12: on a four-wire motor of 200 steps at step_number 0, after setSpeed, step(200)
\* takes exactly 200 phase transitions, writes the rows of the four-wire table in
\* their cyclic order, each of the four rows exactly 50 times, and returns with
\* step_number 0; step(-200) entered at 0 returns with 0 as well, so step_number is
\* 0 after every call of the loop step(200); step(-200); ...
C12_FullRevolution ==
    /\ FourWireRevolution(ScenarioSteps) =>
          /\ transitions = 200 /\ Len(applied) = 200
          /\ RowsFrom(applied, 4, 1)
          /\ \A r \in 1..4 :
                Cardinality({i \in 1..Len(applied) : applied[i] = FourWireTable[r]}) = 50
          /\ step_number = 0
    /\ FourWireRevolution(0 - ScenarioSteps) => (transitions = 200 /\ step_number = 0)

\* step(200); step(-200) of the bootstrap has returned, at step_number 0
C12_Witness ==
    /\ FourWireRevolution(0 - ScenarioSteps) /\ calls = 2 /\ prev.n = ScenarioSteps
    /\ prev.phase0 = 0 /\ speedArg = ScenarioSpeed /\ step_delay = 5000
    /\ step_number = 0 /\ Len(applied) = 200 /\ applied[1] = <<1, 0, 0, 1>>

\* C13: for positive number_of_steps S and whatSpeed r (up to the bounds), setSpeed(r)
\* leaves step_delay = floor(60000000 / (S * r)): the two successive integer
\* divisions of the code give what one division by the product gives.
C13_SetSpeedQuotient ==
    speedSet => step_delay = (60000000 \div (number_of_steps * speedArg))

\* 200 steps at 60 revolutions per minute: 5000 microseconds
C13_Witness ==
    /\ speedSet /\ number_of_steps = 200 /\ speedArg = 60 /\ step_delay = 5000

\* C14: a setSpeed call changes step_delay only: it writes no pin and does not
\* yield, and it leaves step_number, direction, last_step_time, number_of_steps,
\* pin_count and the pin handles as they are.
C14_SetSpeedFrame ==
    [][(/\ pc # "new"
        /\ speedSet' # speedSet \/ speedArg' # speedArg \/ step_delay' # step_delay) =>
          /\ pc = "idle" /\ pc' = "idle" /\ speedSet'
          /\ UNCHANGED <<step_number, direction, last_step_time, number_of_steps,
                         pin_count, motor_pin>>
          /\ UNCHANGED <<level, written, applied, writes, yields, transitions>>]_vars

\* setSpeed(60) was called on a two-step motor that had been stepped before, at
\* clock reading 0 (which this speed does not allow): the driver is as it was
C14_Witness ==
    /\ pc = "idle" /\ speedSet /\ speedArg = 60 /\ step_delay = 500000
    /\ number_of_steps = 2 /\ everStepped /\ step_number = 1 /\ direction = 1
    /\ last_step_time = 0 /\ yields = 1

\* a constructor has returned and step() has not been called yet
FreshlyConstructed == pc = "idle" /\ calls = 0

\* C15 (as stated): right after each constructor step_number = 0, last_step_time = 0
\* and direction is the value a step() with a positive count selects.
C15_InitiallyForward ==
    FreshlyConstructed =>
        /\ step_number = 0 /\ last_step_time = 0
        /\ direction = NewDirection(1, direction)

\* C15: right after each constructor step_number = 0, last_step_time = 0 and
\* direction = 0, which is the value a step() with a negative count selects (the
\* one under which step_number is decremented).
C15_InitiallyZero ==
    FreshlyConstructed =>
        /\ step_number = 0 /\ last_step_time = 0
        /\ direction = 0 /\ direction = NewDirection(0 - 1, 1 - direction)
        /\ \A sn \in 1..(number_of_steps - 1) :
              NextStepNumber(direction, sn, number_of_steps) = sn - 1

\* a two-wire driver of twenty steps has just been constructed
C15_Witness ==
    /\ FreshlyConstructed /\ ~speedSet /\ pin_count = 2 /\ number_of_steps = 20
    /\ step_number = 0 /\ direction = 0 /\ last_step_time = 0 /\ ~everStepped

\* what k phase transitions of a step() do to an object nothing else touches: the
\* step_number it ends at and the patterns it writes, from step_number sn
RECURSIVE AloneRun(_, _, _, _, _)
AloneRun(pins, steps, dir, sn, k) ==
    IF k = 0 THEN [step_number |-> sn, applied |-> <<>>]
    ELSE LET next == NextStepNumber(dir, sn, steps)
             rest == AloneRun(pins, steps, dir, next, k - 1)
         IN  [step_number |-> rest.step_number,
              applied |-> <<StepMotorLevels(pins, PhaseArg(pins, next))>> \o rest.applied]

\* an object with these fields, whose call c has returned, is as AloneRun says
AsAlone(pins, steps, dir, sn, count, patterns, c) ==
    LET alone == AloneRun(pins, steps, dir, c.phase0, StepsLeftInit(c.n))
    IN  /\ dir = NewDirection(c.n, dir)
        /\ count = Abs(c.n)
        /\ sn = alone.step_number
        /\ patterns = alone.applied

\* C16: two Stepper objects on disjoint pins, used in any interleaving: when a
\* step() of either returns, its step_number, direction, number of phase
\* transitions and sequence of written patterns are those of the same call on an
\* object that runs alone, and the pins of each show the pattern it wrote last.
C16_TwoObjectsIndependent ==
    /\ Returned =>
          AsAlone(pin_count, number_of_steps, direction, step_number, transitions,
                  applied, cur)
    /\ (other.pc = "idle" /\ other.calls >= 1) =>
          AsAlone(other.pin_count, other.number_of_steps, other.direction,
                  other.step_number, other.transitions, other.applied, other.cur)
    /\ (everStepped /\ pc # "stepMotor") =>
          \A i \in 1..pin_count : level[motor_pin[i]] = written[i]
    /\ other.everStepped =>
          \A i \in 1..other.pin_count : level[other.motor_pin[i]] = other.written[i]

\* the step(2) of the first object has returned while the step(2) of the second is
\* between its two phase transitions, the first of which came before the last of
\* the first object: the two calls ran interleaved
C16_Witness ==
    /\ Returned /\ cur.n = 2 /\ step_number = 2 /\ number_of_steps = 20
    /\ other.pc = "loop" /\ other.cur.n = 2 /\ other.transitions = 1
    /\ other.step_number = 1 /\ other.last_step_time < transitionAt
    /\ level[16] = 0 /\ level[17] = 1 /\ level[22] = 1 /\ level[23] = 1

\* C17: step() yields (vTaskDelay) exactly once for each phase transition, after all
\* pins of the transition's pattern are written and before the clock is read again;
\* a pass of the loop that finds the delay not passed does not yield; a returned
\* step(n) has yielded exactly |n| times.  (The clock is read where pc = "loop".)
C17_OneYieldPerTransition ==
    (InCall \/ Returned) =>
        /\ pc = "stepMotor" =>
              (yields = transitions - 1 /\ writes = pin_count * (transitions - 1))
        /\ pc = "delay" =>
              (yields = transitions - 1 /\ writes = pin_count * transitions)
        /\ pc \in {"loop", "idle"} =>
              (yields = transitions /\ writes = pin_count * transitions)
        /\ Returned => yields = Abs(cur.n)

\* a paced step(-2) of a five-wire motor, which had to wait for its delay before
\* each transition, has returned after two yields
C17_Witness ==
    /\ Returned /\ cur.n = 0 - 2 /\ yields = 2 /\ writes = 10 /\ pin_count = 5
    /\ speedSet /\ step_delay = 50000 /\ last_step_time >= 2000000

\* the row of the variant's table that a written pattern is
RowOf(pattern, pins) ==
    CHOOSE r \in 0..(CycleLength(pins) - 1) : PhaseTable(pins)[r + 1] = pattern

\* stepMotor writes a pattern that is one row after (forward) or one row before
\* (reverse) the pattern written before it, cyclically
MovesOneRow ==
    RowOf(written', pin_count) =
        (RowOf(written, pin_count)
           + (IF direction = 1 THEN 1 ELSE CycleLength(pin_count) - 1))
        % CycleLength(pin_count)

\* the phase transition whose pattern stepMotor is about to write has wrapped
\* step_number from number_of_steps - 1 to 0 or from 0 to number_of_steps - 1
JustWrapped ==
    \/ direction = 1 /\ step_number = 0
    \/ direction # 1 /\ step_number = number_of_steps - 1

\* C18 (as stated): for every variant and every number_of_steps > 0, each pattern
\* written is one row further in the table's cycle than the pattern written before
\* it, forward or backward with the direction, also where step_number wraps.
C18_AlwaysOneRow ==
    [][(pc = "stepMotor" /\ pc' = "delay" /\ everStepped) => MovesOneRow]_vars

\* C18: each pattern written is one row further in the table's cycle than the
\* pattern written before it, forward or backward with the direction, on every
\* transition that does not wrap step_number, and on the wrapping ones as well
\* when number_of_steps is a multiple of the table's cycle length.
C18_OneRowUnlessOddWrap ==
    [][(/\ pc = "stepMotor" /\ pc' = "delay" /\ everStepped
        /\ number_of_steps % CycleLength(pin_count) = 0 \/ ~JustWrapped)
          => MovesOneRow]_vars

\* a four-wire motor of twenty steps, moved back from 0 and forward again, has
\* wrapped from 19 to 0 and shows row 0 after row 3
C18_Witness ==
    /\ pc = "delay" /\ pin_count = 4 /\ number_of_steps = 20
    /\ calls >= 2 /\ prev.n = 0 - 1 /\ prev.phase0 = 0 /\ cur.phase0 = 19
    /\ direction = 1 /\ step_number = 0 /\ written = <<1, 0, 1, 0>>

\* the step() calls of the two objects, a four-wire and a two-wire one with the
\* same number_of_steps, were the same from the same step_number, and have returned
SameCallsReturned ==
    /\ Returned /\ other.pc = "idle" /\ other.calls >= 1
    /\ pin_count = 4 /\ other.pin_count = 2
    /\ number_of_steps = other.number_of_steps
    /\ cur = other.cur

\* C19: a two-wire and a four-wire driver with the same number_of_steps and the
\* same step() calls: at each phase transition the levels the two-wire driver
\* writes to its pins 1, 2 are the levels the four-wire driver writes to its pins
\* 2, 3; and in every pattern the four-wire driver writes, pin 1 has the inverse
\* level of pin 2 and pin 4 the inverse level of pin 3.
C19_TwoWireIsFourWireMiddle ==
    /\ SameCallsReturned =>
          /\ Len(other.applied) = Len(applied)
          /\ \A i \in 1..Len(applied) :
                /\ Len(applied[i]) = 4 /\ Len(other.applied[i]) = 2
                /\ other.applied[i] = <<applied[i][2], applied[i][3]>>
    /\ \A i \in 1..Len(applied) :
          pin_count = 4 =>
              /\ Len(applied[i]) = 4
              /\ applied[i][1] = 1 - applied[i][2]
              /\ applied[i][4] = 1 - applied[i][3]

\* both drivers, of twenty steps, have returned from step(2)
C19_Witness ==
    /\ SameCallsReturned /\ cur.n = 2 /\ number_of_steps = 20
    /\ applied = <<<<0, 1, 1, 0>>, <<0, 1, 0, 1>>>>
    /\ other.applied = <<<<1, 1>>, <<1, 0>>>>

\* the microseconds of clock() that have passed since the latest phase transition
\* (since the start of the program before the first), not reduced modulo 2^WordBits
PassedSinceTransition == micros(clock) - transitionAt

\* C20: with the reading and last_step_time held as unsigned values of WordBits
\* bits, and their difference taken modulo 2^WordBits, a wrap of the reading does
\* not stall step() (wherever step_delay, and less than 2^WordBits, has passed
\* since the latest transition, the next one is taken by the next pass of the
\* loop) and lets no transition be taken before step_delay has passed.
C20_RolloverKeepsPacing ==
    /\ []((/\ pc = "loop" /\ steps_left > 0
           /\ PassedSinceTransition >= step_delay
           /\ PassedSinceTransition < WordModulus)
             => EligibleUnsigned(UnsignedMicros(clock), last_step_time, step_delay))
    /\ [][(transitions' = transitions + 1) =>
             (/\ PassedSinceTransition >= step_delay
              /\ last_step_time' = UnsignedMicros(clock))]_vars

\* the second transition of a paced step(2) was taken at the first reading after
\* the wrap, one second after the first transition
C20_Witness ==
    /\ pc = "stepMotor" /\ cur.n = 2 /\ transitions = 2
    /\ speedSet /\ step_delay = 1000000
    /\ micros(clock) >= WordModulus /\ micros(clock) < WordModulus + 1000000
    /\ transitionAt = micros(clock) /\ last_step_time = micros(clock) - WordModulus

====
